---- MODULE Spec2Model ----
(***************************************************************************)
(* Graph construction of the DCGAN of notebooks/week4/model.py.            *)
(*                                                                         *)
(* The state is the DCGAN object (self), the default graph's collection of *)
(* trainable variables, the log of the generator/discriminator invocations *)
(* and the position of build_model.  Tensors are modelled by their static  *)
(* shape and by the set of trainable variables they are computed from;     *)
(* variable names are sequences of name tokens ("generator", "g_h1").      *)
(***************************************************************************)
EXTENDS Integers, Sequences, FiniteSets, TLC

\* ---------------------------------------------------------------- bounds
MaxBatch == 2
MaxOutputSize == 33
MaxSteps == 2

BatchSizes == 1..MaxBatch
OutputSizes == 1..MaxOutputSize
ImageSizes == {16, 32}
DimColors == {1, 3}
DimZs == {4}
DimFs == {1, 8}

\* An unknown (None) dimension of a static shape.
None == -1

\* Names of trainable variables the default graph may already hold when the
\* model is built: tf.trainable_variables() is a collection of the graph, not
\* of the DCGAN object.
ForeignNames == { <<"global_step">>, <<"generator", "_vs_", "discriminator", "balance">> }

VARIABLES self, variables, value, calls, t_vars, dSteps, gSteps, pc

vars == <<self, variables, value, calls, t_vars, dSteps, gSteps, pc>>

\* ---------------------------------------------------------------- tensors
Tensor(shape, deps, call) == [shape |-> shape, deps |-> deps, call |-> call]

NoTensor == Tensor(<<>>, {}, 0)

NoOptimizer == [attached |-> FALSE, var_list |-> {}, loss_deps |-> {}]

Layer(name, wshape) == [name |-> name, wshape |-> wshape]

\* 'word' in var.name
Contains(name, word) == \E i \in 1..Len(name) : name[i] = word

\* ---------------------------------------------------------------- ops (from ops import *)
\* Affine projection of a (rows, n) tensor to (rows, output_size).
linear(x, output_size, name) ==
    [shape |-> <<x[1], output_size>>, param |-> Layer(name, <<x[2], output_size>>)]

\* Stride-2 convolution: halves the spatial resolution.
Halve(n) == (n + 1) \div 2

conv2d(x, output_dim, name) ==
    [shape |-> <<x[1], Halve(x[2]), Halve(x[3]), output_dim>>,
     param |-> Layer(name, <<x[4], output_dim>>)]

\* Transposed convolution to the output shape it is given.
deconv2d(x, output_shape, name) ==
    [shape |-> output_shape, param |-> Layer(name, <<output_shape[4], x[4]>>)]

\* A batch_norm object applied to x: the shape is kept.
batch_norm(x, name) ==
    [shape |-> x, param |-> Layer(name, <<x[Len(x)]>>)]

\* ---------------------------------------------------------------- tf.reshape
RECURSIVE Product(_)
Product(s) == IF s = <<>> THEN 1 ELSE Head(s) * Product(Tail(s))

Known(s) == \A i \in 1..Len(s) : s[i] # None

\* tf.reshape(x, target), target holding at most one -1.
reshape(x, target) ==
    LET rest == Product([i \in 1..Len(target) |-> IF target[i] = -1 THEN 1 ELSE target[i]])
        fill == IF Known(x) /\ rest > 0 THEN Product(x) \div rest ELSE None
    IN [i \in 1..Len(target) |-> IF target[i] = -1 THEN fill ELSE target[i]]

\* ---------------------------------------------------------------- DCGAN.__init__
ImagesPlaceholder(batch_size, image_size, dim_color) ==
    Tensor(<<batch_size, image_size, image_size, dim_color>>, {}, 0)

\* Variant: the latent placeholder declared with batch_size rows.
ZPlaceholderBatch(batch_size, dim_z) == Tensor(<<batch_size, dim_z>>, {}, 0)

ZPlaceholder(batch_size, dim_z) == Tensor(<<None, dim_z>>, {}, 0)

DCGAN(batch_size, image_size, output_size, dim_color, dim_z, dim_df, dim_gf) ==
    [batch_size |-> batch_size, image_size |-> image_size, output_size |-> output_size,
     dim_color |-> dim_color, dim_z |-> dim_z, dim_df |-> dim_df, dim_gf |-> dim_gf,
     images |-> ImagesPlaceholder(batch_size, image_size, dim_color),
     z |-> ZPlaceholder(batch_size, dim_z),
     fake_images |-> NoTensor, logits_real |-> NoTensor, logits_fake |-> NoTensor,
     sampled_images |-> NoTensor, d_loss |-> NoTensor, g_loss |-> NoTensor,
     d_vars |-> {}, g_vars |-> {},
     d_optimizer |-> NoOptimizer, g_optimizer |-> NoOptimizer]

Init ==
    /\ \E b \in BatchSizes, i \in ImageSizes, s \in OutputSizes, c \in DimColors,
          dz \in DimZs, df \in DimFs, gf \in DimFs :
          self = DCGAN(b, i, s, c, dz, df, gf)
    /\ \E foreign \in SUBSET ForeignNames : variables = [v \in foreign |-> <<1>>]
    /\ value = [v \in DOMAIN variables |-> 0]
    /\ calls = <<>>
    /\ t_vars = {}
    /\ dSteps = 0
    /\ gSteps = 0
    /\ pc = "fake_images"

\* ---------------------------------------------------------------- tf.variable_scope / tf.get_variable
\* The layers of one invocation ask, in order, for their variable under
\* scope/name.  reuse=False creates it and fails when it exists; reuse=True
\* binds the existing one and fails when it is missing or has another shape.
RECURSIVE get_variables(_, _, _, _, _)
get_variables(st, scope, reuse, layers, i) ==
    IF i > Len(layers) \/ ~st.ok THEN st
    ELSE LET name == <<scope, layers[i].name>>
             wshape == layers[i].wshape
         IN IF reuse
            THEN IF name \in DOMAIN st.vars /\ st.vars[name] = wshape
                 THEN get_variables([st EXCEPT !.bound = @ \cup {name}],
                                    scope, reuse, layers, i + 1)
                 ELSE [st EXCEPT !.ok = FALSE]
            ELSE IF name \in DOMAIN st.vars
                 THEN [st EXCEPT !.ok = FALSE]
                 ELSE get_variables([st EXCEPT !.vars = (name :> wshape) @@ @,
                                               !.created = @ \cup {name},
                                               !.bound = @ \cup {name}],
                                    scope, reuse, layers, i + 1)

variable_scope(store, net) ==
    get_variables([ok |-> TRUE, vars |-> store, created |-> {}, bound |-> {}],
                  net.scope, net.reuse, net.layers, 1)

\* ---------------------------------------------------------------- DCGAN.generator
GeneratorScope == "generator"

\* Variant: train left True whatever reuse is.
GeneratorTrainAlways(reuse) == TRUE

GeneratorTrain(reuse) == IF reuse THEN FALSE ELSE TRUE

TrainArg(train) == IF train THEN "True" ELSE "False"

\* Variant: s2 computed as s/4.
GeneratorSizesQuarter(s) ==
    [s |-> s, s2 |-> s \div 4, s4 |-> s \div 4, s8 |-> s \div 8, s16 |-> s \div 16]

\* Variant: s16 computed as s/8.
GeneratorSizesCopied(s) ==
    [s |-> s, s2 |-> s \div 2, s4 |-> s \div 4, s8 |-> s \div 8, s16 |-> s \div 8]

\* s, s/2, s/4, s/8, s/16 by integer division
GeneratorSizes(s) ==
    [s |-> s, s2 |-> s \div 2, s4 |-> s \div 4, s8 |-> s \div 8, s16 |-> s \div 16]

generator(obj, z, reuse) ==
    LET train == GeneratorTrain(reuse)
        sz == GeneratorSizes(obj.output_size)
        p1 == linear(z.shape, sz.s16 * sz.s16 * obj.dim_gf * 8, "g_h1")
        r1 == reshape(p1.shape, <<-1, sz.s16, sz.s16, obj.dim_gf * 8>>)
        h1 == batch_norm(r1, "g_bn1")
        c2 == deconv2d(h1.shape, <<obj.batch_size, sz.s8, sz.s8, obj.dim_gf * 4>>, "g_h2")
        h2 == batch_norm(c2.shape, "g_bn2")
        c3 == deconv2d(h2.shape, <<obj.batch_size, sz.s4, sz.s4, obj.dim_gf * 2>>, "g_h3")
        h3 == batch_norm(c3.shape, "g_bn3")
        c4 == deconv2d(h3.shape, <<obj.batch_size, sz.s2, sz.s2, obj.dim_gf>>, "g_h4")
        h4 == batch_norm(c4.shape, "g_bn4")
        out == deconv2d(h4.shape, <<obj.batch_size, sz.s, sz.s, obj.dim_color>>, "g_out")
    IN [net |-> "generator", scope |-> GeneratorScope, reuse |-> reuse,
        bn |-> <<TrainArg(train), TrainArg(train), TrainArg(train), TrainArg(train)>>,
        layers |-> <<p1.param, h1.param, c2.param, h2.param, c3.param, h3.param,
                     c4.param, h4.param, out.param>>,
        stages |-> <<p1.shape, h1.shape, h2.shape, h3.shape, h4.shape, out.shape>>,
        out |-> out.shape]

\* ---------------------------------------------------------------- DCGAN.discriminator
DiscriminatorScope == "discriminator"

\* Variant: the discriminator passing train = not reuse as the generator does.
DiscriminatorBnCoupled(reuse) == IF reuse THEN "False" ELSE "True"

\* The train argument the discriminator hands its batch_norm layers: none.
DiscriminatorBnTrain(reuse) == "omitted"

discriminator(obj, images, reuse) ==
    LET h1 == conv2d(images.shape, obj.dim_df, "d_h1")
        c2 == conv2d(h1.shape, obj.dim_df * 2, "d_h2")
        h2 == batch_norm(c2.shape, "d_bn1")
        c3 == conv2d(h2.shape, obj.dim_df * 4, "d_h3")
        h3 == batch_norm(c3.shape, "d_bn2")
        c4 == conv2d(h3.shape, obj.dim_df * 8, "d_h4")
        h4 == batch_norm(c4.shape, "d_bn3")
        flat == reshape(h4.shape, <<obj.batch_size, -1>>)
        out == linear(flat, 1, "d_out")
    IN [net |-> "discriminator", scope |-> DiscriminatorScope, reuse |-> reuse,
        bn |-> <<DiscriminatorBnTrain(reuse), DiscriminatorBnTrain(reuse),
                 DiscriminatorBnTrain(reuse)>>,
        layers |-> <<h1.param, c2.param, h2.param, c3.param, h3.param, c4.param,
                     h4.param, out.param>>,
        stages |-> <<h1.shape, h2.shape, h3.shape, h4.shape, flat, out.shape>>,
        out |-> out.shape]

\* ---------------------------------------------------------------- DCGAN.build_model
FakeImagesReuse == FALSE
LogitsRealReuse == FALSE
\* Variant: the second discriminator invocation without reuse=True.
LogitsFakeNoReuse == FALSE

LogitsFakeReuse == TRUE
SampledImagesReuse == TRUE

Call(net, r) ==
    [net |-> net.net, reuse |-> net.reuse, bn |-> net.bn, stages |-> net.stages,
     ok |-> r.ok, created |-> r.created, bound |-> r.bound]

\* One invocation of a network on an input tensor: its variables are created
\* or bound, the invocation is logged, and its output tensor is returned in
\* field `out` (NoTensor when the invocation raised).
Invoke(net, input) ==
    LET r == variable_scope(variables, net)
    IN [ok |-> r.ok, vars |-> r.vars, call |-> Call(net, r),
        out |-> IF r.ok THEN Tensor(net.out, input.deps \cup r.bound, Len(calls) + 1)
                ELSE NoTensor]

Graph(i) ==
    /\ variables' = i.vars
    /\ value' = [v \in DOMAIN i.vars |-> IF v \in DOMAIN value THEN value[v] ELSE 0]
    /\ calls' = Append(calls, i.call)

\* self.fake_images = self.generator(self.z)
BuildFakeImages ==
    /\ pc = "fake_images"
    /\ LET i == Invoke(generator(self, self.z, FakeImagesReuse), self.z)
       IN /\ Graph(i)
          /\ self' = [self EXCEPT !.fake_images = i.out]
          /\ pc' = IF i.ok THEN "logits_real" ELSE "error"
    /\ UNCHANGED <<t_vars, dSteps, gSteps>>

\* self.logits_real = self.discriminator(self.images)
BuildLogitsReal ==
    /\ pc = "logits_real"
    /\ LET i == Invoke(discriminator(self, self.images, LogitsRealReuse), self.images)
       IN /\ Graph(i)
          /\ self' = [self EXCEPT !.logits_real = i.out]
          /\ pc' = IF i.ok THEN "logits_fake" ELSE "error"
    /\ UNCHANGED <<t_vars, dSteps, gSteps>>

\* self.logits_fake = self.discriminator(self.fake_images, reuse=True)
BuildLogitsFake ==
    /\ pc = "logits_fake"
    /\ LET i == Invoke(discriminator(self, self.fake_images, LogitsFakeReuse),
                       self.fake_images)
       IN /\ Graph(i)
          /\ self' = [self EXCEPT !.logits_fake = i.out]
          /\ pc' = IF i.ok THEN "sampled_images" ELSE "error"
    /\ UNCHANGED <<t_vars, dSteps, gSteps>>

\* self.sampled_images = self.generator(self.z, reuse=True)
BuildSampledImages ==
    /\ pc = "sampled_images"
    /\ LET i == Invoke(generator(self, self.z, SampledImagesReuse), self.z)
       IN /\ Graph(i)
          /\ self' = [self EXCEPT !.sampled_images = i.out]
          /\ pc' = IF i.ok THEN "loss" ELSE "error"
    /\ UNCHANGED <<t_vars, dSteps, gSteps>>

\* tf.reduce_mean(...): a scalar computed from its logits
reduce_mean(deps) == Tensor(<<>>, deps, 0)

ComputeLoss ==
    /\ pc = "loss"
    /\ self' = [self EXCEPT
                  !.d_loss = reduce_mean(self.logits_real.deps \cup self.logits_fake.deps),
                  !.g_loss = reduce_mean(self.logits_fake.deps)]
    /\ pc' = "divide"
    /\ UNCHANGED <<variables, value, calls, t_vars, dSteps, gSteps>>

\* Variant: the discriminator's scope name misspelt in the match.
DVarsMisspelt(t) == {var \in t : Contains(var, "discriminater")}

DVars(t) == {var \in t : Contains(var, "discriminator")}

GVars(t) == {var \in t : Contains(var, "generator")}

DivideVariables ==
    /\ pc = "divide"
    /\ t_vars' = DOMAIN variables
    /\ self' = [self EXCEPT !.d_vars = DVars(t_vars'), !.g_vars = GVars(t_vars')]
    /\ pc' = "optimizer"
    /\ UNCHANGED <<variables, value, calls, dSteps, gSteps>>

\* The variables a step of minimize(loss, var_list) updates: those of var_list
\* the loss has a gradient for.
Updated(opt) == {v \in opt.var_list : v \in opt.loss_deps}

minimize(loss, var_list) ==
    [attached |-> TRUE, var_list |-> var_list, loss_deps |-> loss.deps]

\* Variant: minimize without var_list, i.e. over every trainable variable.
VarListOmitted == t_vars

DVarList == self.d_vars

GVarList == self.g_vars

AttachOptimizers ==
    /\ pc = "optimizer"
    /\ LET d == minimize(self.d_loss, DVarList)
           g == minimize(self.g_loss, GVarList)
       IN IF Updated(d) # {} /\ Updated(g) # {}
          THEN /\ self' = [self EXCEPT !.d_optimizer = d, !.g_optimizer = g]
               /\ pc' = "summary"
          ELSE /\ self' = self
               /\ pc' = "error"
    /\ UNCHANGED <<variables, value, calls, t_vars, dSteps, gSteps>>

\* summaries, merge_all_summaries and the Saver leave the model as it is
RegisterSummaries ==
    /\ pc = "summary"
    /\ pc' = "done"
    /\ UNCHANGED <<self, variables, value, calls, t_vars, dSteps, gSteps>>

\* ---------------------------------------------------------------- optimizer steps
Step(opt) == [v \in DOMAIN value |-> IF v \in Updated(opt) THEN value[v] + 1 ELSE value[v]]

RunDOptimizer ==
    /\ pc = "done"
    /\ dSteps + gSteps < MaxSteps
    /\ value' = Step(self.d_optimizer)
    /\ dSteps' = dSteps + 1
    /\ UNCHANGED <<self, variables, calls, t_vars, gSteps, pc>>

RunGOptimizer ==
    /\ pc = "done"
    /\ dSteps + gSteps < MaxSteps
    /\ value' = Step(self.g_optimizer)
    /\ gSteps' = gSteps + 1
    /\ UNCHANGED <<self, variables, calls, t_vars, dSteps, pc>>

Next ==
    \/ BuildFakeImages
    \/ BuildLogitsReal
    \/ BuildLogitsFake
    \/ BuildSampledImages
    \/ ComputeLoss
    \/ DivideVariables
    \/ AttachOptimizers
    \/ RegisterSummaries
    \/ RunDOptimizer
    \/ RunGOptimizer

Spec == Init /\ [][Next]_vars

\* ================================================================ properties
Created == UNION {calls[i].created : i \in 1..Len(calls)}

Divided == pc \in {"optimizer", "summary", "done"}

GeneratorCalls == {i \in 1..Len(calls) : calls[i].net = "generator"}

DiscriminatorCalls == {i \in 1..Len(calls) : calls[i].net = "discriminator"}

C2_Invocations ==
    \A i \in 1..Len(calls) :
        LET c == calls[i]
            earlier == {j \in 1..(i - 1) : calls[j].net = c.net}
        IN /\ ~c.reuse => earlier = {}
           /\ c.reuse =>
                 /\ c.created = {}
                 /\ \E j \in earlier :
                       /\ ~calls[j].reuse /\ calls[j].ok
                       /\ calls[j].created # {}
                       /\ c.ok => c.bound = calls[j].created
           /\ c.created \subseteq DOMAIN variables
           /\ \A j \in 1..Len(calls) : j # i => c.created \cap calls[j].created = {}

C2_CreatedOnce ==
    /\ []C2_Invocations
    /\ [][(Len(calls') = Len(calls) + 1 /\ calls'[Len(calls')].reuse)
             => DOMAIN variables' = DOMAIN variables]_vars

C2_Witness ==
    /\ Len(calls) = 4
    /\ calls[3].net = "discriminator" /\ calls[3].reuse /\ calls[3].ok
    /\ calls[3].bound = calls[2].created
    /\ calls[4].net = "generator" /\ calls[4].reuse /\ calls[4].ok
    /\ calls[4].bound = calls[1].created

\* C3: a d_optimizer step changes no variable outside d_vars and leaves every
\* parameter of g_vars unchanged; a g_optimizer step changes no variable
\* outside g_vars and leaves every parameter of d_vars unchanged.
C3_StepFrame ==
    [][/\ dSteps' = dSteps + 1 =>
              /\ \A v \in self.g_vars : value'[v] = value[v]
              /\ \A v \in DOMAIN value : value'[v] # value[v] => v \in self.d_vars
       /\ gSteps' = gSteps + 1 =>
              /\ \A v \in self.d_vars : value'[v] = value[v]
              /\ \A v \in DOMAIN value : value'[v] # value[v] => v \in self.g_vars]_vars

C3_Witness ==
    /\ dSteps = 1 /\ gSteps = 1
    /\ \E v \in self.d_vars \cap self.g_vars : value[v] = 0
    /\ \A v \in Created : value[v] = 1

C5_Claim ==
    /\ \A i \in DiscriminatorCalls : calls[i].ok => calls[i].stages[6] = <<self.batch_size>>
    /\ self.logits_real.call # 0 => self.logits_real.shape = <<self.batch_size>>
    /\ self.logits_fake.call # 0 => self.logits_fake.shape = <<self.batch_size>>

C7_GeneratorCoupling ==
    /\ \A i \in GeneratorCalls :
          \A k \in 1..4 : calls[i].bn[k] = (IF calls[i].reuse THEN "False" ELSE "True")
    /\ self.fake_images.call # 0 =>
          LET c == calls[self.fake_images.call]
          IN /\ c.net = "generator" /\ ~c.reuse
             /\ c.bn = <<"True", "True", "True", "True">>
             /\ Cardinality(c.created) = 9
             /\ \A v \in c.created : Contains(v, "generator")
    /\ self.sampled_images.call # 0 =>
          LET c == calls[self.sampled_images.call]
          IN /\ c.net = "generator" /\ c.reuse
             /\ c.bn = <<"False", "False", "False", "False">>
             /\ c.created = {}

C7_Witness ==
    /\ self.fake_images.call = 1
    /\ self.sampled_images.call = 4
    /\ calls[4].bn = <<"False", "False", "False", "False">>
    /\ calls[1].bn = <<"True", "True", "True", "True">>

AllStagesLead(c, d) == \A k \in 1..Len(c.stages) : c.stages[k][1] = d

Unowned(v) == ~Contains(v, "generator") /\ ~Contains(v, "discriminator")

\* C9 (as claimed): once build_model has divided the variables, a trainable
\* parameter whose name contains neither 'generator' nor 'discriminator' has
\* put build_model in the error state, with no optimizer attached.
C9_Claim ==
    (t_vars # {} /\ \E v \in t_vars : Unowned(v)) =>
        /\ pc = "error"
        /\ ~self.d_optimizer.attached
        /\ ~self.g_optimizer.attached

Doubling(st) ==
    \A k \in 2..5 : st[k + 1][2] = 2 * st[k][2] /\ st[k + 1][3] = 2 * st[k][3]

\* C10: the generator does not validate output_size (its first invocation
\* completes for every output_size), its stage sizes are output_size divided
\* by 16, 8, 4, 2 and 1 with integer division, and the chain s/16 -> s/8 ->
\* s/4 -> s/2 -> s has every stage twice the one before exactly when
\* output_size is divisible by 16.
C10_Divisibility ==
    \A i \in GeneratorCalls :
        LET st == calls[i].stages
            s == self.output_size
        IN /\ (i = 1 => calls[i].ok)
           /\ <<st[2][2], st[3][2], st[4][2], st[5][2], st[6][2]>>
                 = <<s \div 16, s \div 8, s \div 4, s \div 2, s>>
           /\ Doubling(st) <=> (s % 16 = 0)

C10_Witness ==
    /\ self.output_size = 24
    /\ Len(calls) >= 1
    /\ calls[1].ok
    /\ calls[1].stages[2][2] = 1
    /\ calls[1].stages[3][2] = 3
    /\ ~Doubling(calls[1].stages)
====
